---- MODULE Spec2Model ----
(***************************************************************************)
(* Validated domain model of the authentication types library.            *)
(*                                                                         *)
(* Every class of the library is a constructor that checks its input and  *)
(* either throws an Error or stores the fields.  A constructor call is    *)
(* modelled as one action: it draws an input, runs the constructor's      *)
(* checks in source order and records the outcome (the thrown message or  *)
(* the constructed entity).                                                *)
(***************************************************************************)
EXTENDS Integers, Sequences, FiniteSets, TLC

VARIABLES pc, op, arg, res

vars == <<pc, op, arg, res>>

(***************************************************************************)
(* Bounds of the input space.                                              *)
(***************************************************************************)
MaxTokLen == 5
MaxUrlLen == 3
MaxNameLen == 2
MaxSigLen == 2
MaxFieldLen == 1
MaxRoles == 2
MaxEmailLen == 5
MaxPasswordLen == 9
MaxCode == 3
MaxMessageLen == 2
NumInvocations == 2

(***************************************************************************)
(* JavaScript values.  k is the kind of value, s the characters of a      *)
(* string (or the bytes of a Uint8Array), n the value of a number, f the  *)
(* own properties of an object.                                            *)
(***************************************************************************)
Undefined == [k |-> "undefined", s |-> <<>>, n |-> 0]
Null == [k |-> "null", s |-> <<>>, n |-> 0]
True == [k |-> "true", s |-> <<>>, n |-> 0]
False == [k |-> "false", s |-> <<>>, n |-> 0]
NaN == [k |-> "nan", s |-> <<>>, n |-> 0]
Num(n) == [k |-> "number", s |-> <<>>, n |-> n]
\* the number n + 1/2, and the infinity of sign n
Frac(n) == [k |-> "fraction", s |-> <<>>, n |-> n]
Inf(n) == [k |-> "infinity", s |-> <<>>, n |-> n]
Str(s) == [k |-> "string", s |-> s, n |-> 0]
Bytes(s) == [k |-> "bytes", s |-> s, n |-> 0]
\* an instance of class c with own properties f
New(c, f) == [k |-> "object", s |-> <<>>, n |-> 0, f |-> f, c |-> c]
\* an object literal
Obj(f) == New("Object", f)

\* typeof v
TypeOf(v) ==
    CASE v.k = "undefined" -> "undefined"
      [] v.k \in {"true", "false"} -> "boolean"
      [] v.k \in {"number", "nan", "fraction", "infinity"} -> "number"
      [] v.k = "string" -> "string"
      [] OTHER -> "object"

\* !v
Falsy(v) ==
    \/ v.k \in {"undefined", "null", "false", "nan"}
    \/ v.k = "number" /\ v.n = 0
    \/ v.k = "string" /\ v.s = <<>>

\* typeof v !== 'object' || v === null
NotObject(v) == TypeOf(v) # "object" \/ v.k = "null"

\* !v || typeof v !== 'object'
MissingObject(v) == Falsy(v) \/ TypeOf(v) # "object"

\* !v || typeof v !== 'string'
MissingString(v) == Falsy(v) \/ TypeOf(v) # "string"

\* s.trim() === ''
IsBlank(s) == \A i \in 1..Len(s) : s[i] = " "

\* typeof v !== 'string' || v.trim() === ''
BlankString(v) == TypeOf(v) # "string" \/ IsBlank(v.s)

\* o.name, for an o that is neither undefined nor null
Get(o, name) ==
    IF o.k = "object" /\ name \in DOMAIN o.f THEN o.f[name] ELSE Undefined

\* all strings over chars of length at most n
Strings(chars, n) == UNION {[1..m -> chars] : m \in 0..n}

(***************************************************************************)
(* Outcome of a constructor call.                                          *)
(***************************************************************************)
Ok(val) == [ok |-> TRUE, err |-> "", val |-> val]
Err(msg) == [ok |-> FALSE, err |-> msg, val |-> Undefined]

(***************************************************************************)
(* Wallet handshake: SignedData                                            *)
(***************************************************************************)
\* variant: the account is not trimmed before it is tested for emptiness
_SignedData_NoTrim(signature, serverSigningAccount) ==
    IF signature.k # "bytes"
    THEN Err("Signature must be a Uint8Array")
    ELSE IF Len(signature.s) = 0
    THEN Err("Signature cannot be empty")
    ELSE IF TypeOf(serverSigningAccount) # "string" \/ serverSigningAccount.s = <<>>
    THEN Err("Server signing account must be a non-empty string")
    ELSE Ok(New("_SignedData", [signature |-> signature,
                                serverSigningAccount |-> serverSigningAccount]))

_SignedData(signature, serverSigningAccount) ==
    IF signature.k # "bytes"
    THEN Err("Signature must be a Uint8Array")
    ELSE IF Len(signature.s) = 0
    THEN Err("Signature cannot be empty")
    ELSE IF TypeOf(serverSigningAccount) # "string" \/ IsBlank(serverSigningAccount.s)
    THEN Err("Server signing account must be a non-empty string")
    ELSE Ok(New("_SignedData", [signature |-> signature,
                                serverSigningAccount |-> serverSigningAccount]))

(***************************************************************************)
(* Wallet handshake: token data                                            *)
(***************************************************************************)
\* [A-Za-z0-9-_=]
SegmentChars == {"a", "-", "_", "="}
\* [A-Za-z0-9-_.+/=]
TailChars == SegmentChars \cup {".", "+", "/"}

\* /^[A-Za-z0-9-_=]+\.[A-Za-z0-9-_=]+\.?[A-Za-z0-9-_.+/=]*$/.test(s)
JwtRegexTest(s) ==
    \E i \in 1..Len(s) : \E j \in (i + 2)..Len(s) :
        /\ \A x \in 1..i : s[x] \in SegmentChars
        /\ s[i + 1] = "."
        /\ \A x \in (i + 2)..j : s[x] \in SegmentChars
        /\ \/ \A x \in (j + 1)..Len(s) : s[x] \in TailChars
           \/ /\ j < Len(s)
              /\ s[j + 1] = "."
              /\ \A x \in (j + 2)..Len(s) : s[x] \in TailChars

_Data(token) ==
    IF MissingString(token)
    THEN Err("Token must be a non-empty string")
    ELSE IF ~JwtRegexTest(token.s)
    THEN Err("Invalid token format")
    ELSE Ok(New("_Data", [token |-> token]))

(***************************************************************************)
(* Wallet handshake: payload                                               *)
(***************************************************************************)
\* the input without its leading and trailing spaces
Strip(s) ==
    LET solid == {i \in 1..Len(s) : s[i] # " "}
    IN  IF solid = {}
        THEN <<>>
        ELSE SubSeq(s, CHOOSE i \in solid : \A j \in solid : i <= j,
                       CHOOSE i \in solid : \A j \in solid : j <= i)

\* new URL(s) does not throw: without a base, s must start with a scheme
\* (a letter, then letters, digits, + - .) followed by a colon
UrlParses(s) ==
    LET t == Strip(s)
    IN  \E i \in 2..Len(t) :
            /\ t[i] = ":"
            /\ t[1] = "a"
            /\ \A j \in 2..(i - 1) : t[j] \in {"a", "1", "+", "-", "."}

_Payload(payload) ==
    IF MissingString(Get(payload, "url"))
    THEN Err("URL must be a non-empty string")
    ELSE IF ~UrlParses(Get(payload, "url").s)
    THEN Err("Invalid URL format")
    ELSE IF MissingString(Get(payload, "node"))
    THEN Err("Node must be a non-empty string")
    ELSE IF \/ MissingObject(Get(payload, "data"))
            \/ Falsy(Get(Get(payload, "data"), "token"))
    THEN Err("Invalid data object")
    ELSE LET data == _Data(Get(Get(payload, "data"), "token"))
         IN  IF ~data.ok
             THEN data
             ELSE Ok(New("_Payload", [url |-> Get(payload, "url"),
                                      node |-> Get(payload, "node"),
                                      data |-> data.val]))

(***************************************************************************)
(* Wallet handshake: the one-shot request and the sign-in request          *)
(***************************************************************************)
\* variant: payload is tested with typeof only, which null passes
_Authenticate_NullPayload(data) ==
    IF MissingObject(Get(data, "signedData"))
    THEN Err("Invalid signedData: must be an object")
    ELSE IF TypeOf(Get(data, "payload")) # "object"
    THEN Err("Invalid payload: must be an object")
    ELSE Ok(New("_Authenticate", [signedData |-> Get(data, "signedData"),
                                  payload |-> Get(data, "payload")]))

_Authenticate(data) ==
    IF MissingObject(Get(data, "signedData"))
    THEN Err("Invalid signedData: must be an object")
    ELSE IF MissingObject(Get(data, "payload"))
    THEN Err("Invalid payload: must be an object")
    ELSE Ok(New("_Authenticate", [signedData |-> Get(data, "signedData"),
                                  payload |-> Get(data, "payload")]))

\* variant: the operator is not checked
_SigninLogin_NoOperatorCheck(login) ==
    IF MissingObject(Get(login, "signedData"))
    THEN Err("Signed data must be a valid object")
    ELSE Ok(New("_Login", [operator |-> Get(login, "operator"),
                           signedData |-> Get(login, "signedData")]))

_SigninLogin(login) ==
    IF MissingObject(Get(login, "operator"))
    THEN Err("Operator must be a valid object")
    ELSE IF MissingObject(Get(login, "signedData"))
    THEN Err("Signed data must be a valid object")
    ELSE Ok(New("_Login", [operator |-> Get(login, "operator"),
                           signedData |-> Get(login, "signedData")]))

(***************************************************************************)
(* Second factor: state record and response records                        *)
(***************************************************************************)
\* enum IStatus
VERIFIED == Str(<<"v", "e", "r", "i", "f", "i", "e", "d">>)
UNVERIFIED == Str(<<"u", "n">> \o VERIFIED.s)
DISABLED == Str(<<"d", "i", "s", "a", "b", "l", "e", "d">>)
IStatus == {VERIFIED, UNVERIFIED, DISABLED}

_Auth(status, factorSid, identity, qr_code) ==
    IF NotObject(status)
    THEN Err("status must be a valid IAuth.ITwoFactor.IStatus object")
    ELSE IF BlankString(factorSid)
    THEN Err("factorSid must be a non-empty string")
    ELSE IF BlankString(identity)
    THEN Err("identity must be a non-empty string")
    ELSE IF BlankString(qr_code)
    THEN Err("qr_code must be a non-empty string")
    ELSE Ok(New("_Auth", [status |-> status, factorSid |-> factorSid,
                          identity |-> identity, qr_code |-> qr_code]))

\* variant: an empty message is rejected
_Create_MessageNonEmpty(factorSid, identity, uri, secret, message) ==
    IF BlankString(factorSid)
    THEN Err("factorSid must be a non-empty string")
    ELSE IF BlankString(identity)
    THEN Err("identity must be a non-empty string")
    ELSE IF BlankString(uri)
    THEN Err("uri must be a non-empty string")
    ELSE IF BlankString(secret)
    THEN Err("secret must be a non-empty string")
    ELSE IF TypeOf(message) # "string" \/ message.s = <<>>
    THEN Err("message must be a string")
    ELSE Ok(New("_Create", [factorSid |-> factorSid, identity |-> identity,
                            uri |-> uri, secret |-> secret, message |-> message]))

_Create(factorSid, identity, uri, secret, message) ==
    IF BlankString(factorSid)
    THEN Err("factorSid must be a non-empty string")
    ELSE IF BlankString(identity)
    THEN Err("identity must be a non-empty string")
    ELSE IF BlankString(uri)
    THEN Err("uri must be a non-empty string")
    ELSE IF BlankString(secret)
    THEN Err("secret must be a non-empty string")
    ELSE IF TypeOf(message) # "string"
    THEN Err("message must be a string")
    ELSE Ok(New("_Create", [factorSid |-> factorSid, identity |-> identity,
                            uri |-> uri, secret |-> secret, message |-> message]))

_Verify(success, message) ==
    IF TypeOf(success) # "boolean"
    THEN Err("Success must be a boolean")
    ELSE IF TypeOf(message) # "string"
    THEN Err("Message must be a string")
    ELSE Ok(New("_Verify", [success |-> success, message |-> message]))

_Delete(success, message) ==
    IF TypeOf(success) # "boolean"
    THEN Err("Success must be a boolean value")
    ELSE IF TypeOf(message) # "string"
    THEN Err("Message must be a string")
    ELSE Ok(New("_Delete", [success |-> success, message |-> message]))

(***************************************************************************)
(* Token gate: metadata and the owned-token entity                         *)
(***************************************************************************)
_Metadata(metadata) ==
    IF BlankString(Get(metadata, "name"))
    THEN Err("name must be a non-empty string")
    ELSE IF BlankString(Get(metadata, "description"))
    THEN Err("description must be a non-empty string")
    ELSE IF BlankString(Get(metadata, "creator"))
    THEN Err("creator must be a non-empty string")
    ELSE IF NotObject(Get(metadata, "properties"))
    THEN Err("properties must be a non-null object")
    ELSE IF BlankString(Get(metadata, "image"))
    THEN Err("image must be a non-empty string")
    ELSE Ok(New("_Metadata", [name |-> Get(metadata, "name"),
                              description |-> Get(metadata, "description"),
                              creator |-> Get(metadata, "creator"),
                              properties |-> Get(metadata, "properties"),
                              image |-> Get(metadata, "image")]))

\* variant: serial_number is not tested for NaN
_TokenGateEntity_NoNaNCheck(entity) ==
    IF MissingObject(Get(entity, "metadata"))
    THEN Err("metadata must be a non-null object")
    ELSE IF TypeOf(Get(entity, "serial_number")) # "number"
    THEN Err("serial_number must be a valid number")
    ELSE IF BlankString(Get(entity, "token_id"))
    THEN Err("token_id must be a non-empty string")
    ELSE Ok(New("_Entity", [metadata |-> Get(entity, "metadata"),
                            serial_number |-> Get(entity, "serial_number"),
                            token_id |-> Get(entity, "token_id")]))

_TokenGateEntity(entity) ==
    IF MissingObject(Get(entity, "metadata"))
    THEN Err("metadata must be a non-null object")
    ELSE IF TypeOf(Get(entity, "serial_number")) # "number"
            \/ Get(entity, "serial_number").k = "nan"
    THEN Err("serial_number must be a valid number")
    ELSE IF BlankString(Get(entity, "token_id"))
    THEN Err("token_id must be a non-empty string")
    ELSE Ok(New("_Entity", [metadata |-> Get(entity, "metadata"),
                            serial_number |-> Get(entity, "serial_number"),
                            token_id |-> Get(entity, "token_id")]))

(***************************************************************************)
(* Configuration composer                                                  *)
(***************************************************************************)
\* enum IPassportStrategy
REDIS == Str(<<"r", "e", "d", "i", "s">>)
JWT == Str(<<"j", "w", "t">>)
IPassportStrategy == {REDIS, JWT}

\* v instanceof c
InstanceOf(v, c) == v.k = "object" /\ v.c = c

\* common options; reading a property of undefined or null throws a TypeError
_Options(options) ==
    IF options.k = "undefined"
    THEN Err("Cannot read properties of undefined (reading 'redis')")
    ELSE IF options.k = "null"
    THEN Err("Cannot read properties of null (reading 'redis')")
    ELSE IF NotObject(Get(options, "redis"))
    THEN Err("redis must be a non-null object")
    ELSE IF NotObject(Get(options, "jwt"))
    THEN Err("jwt must be a non-null object")
    ELSE IF NotObject(Get(options, "cookieOptions"))
    THEN Err("cookieOptions must be a non-null object")
    ELSE IF NotObject(Get(options, "operator"))
    THEN Err("operator must be a non-null object")
    ELSE IF Get(options, "passport") \notin IPassportStrategy
    THEN Err("passport must be a valid IPassportStrategy")
    ELSE IF BlankString(Get(options, "appName"))
    THEN Err("appName must be a non-empty string")
    ELSE Ok(New("_Options", [redis |-> Get(options, "redis"),
                             jwt |-> Get(options, "jwt"),
                             cookieOptions |-> Get(options, "cookieOptions"),
                             operator |-> Get(options, "operator"),
                             passport |-> Get(options, "passport"),
                             appName |-> Get(options, "appName")]))

_Web3Options(options) ==
    IF \/ Falsy(Get(options, "tokenGateOptions"))
       \/ ~InstanceOf(Get(options, "tokenGateOptions"), "_TokenGate.Options")
    THEN Err("tokenGateOptions must be an instance of _TokenGate.Options")
    ELSE Ok(New("_Web3.Options",
                [tokenGateOptions |-> Get(options, "tokenGateOptions")]))

\* variant: web2Options is not tested
_Authentication_NoWeb2Check(config) ==
    IF TypeOf(Get(config, "enabled")) # "boolean"
    THEN Err("enabled must be a boolean")
    ELSE LET commonOptions == _Options(Get(config, "commonOptions"))
         IN  IF ~commonOptions.ok
             THEN Err(commonOptions.err)
             ELSE IF NotObject(Get(config, "web3Options"))
             THEN Err("web3Options must be a non-null object")
             ELSE Ok(New("_Authentication",
                         [enabled |-> Get(config, "enabled"),
                          commonOptions |-> commonOptions.val,
                          web2Options |-> Get(config, "web2Options"),
                          web3Options |-> Get(config, "web3Options")]))

_Authentication(config) ==
    IF TypeOf(Get(config, "enabled")) # "boolean"
    THEN Err("enabled must be a boolean")
    ELSE LET commonOptions == _Options(Get(config, "commonOptions"))
         IN  IF ~commonOptions.ok
             THEN Err(commonOptions.err)
             ELSE IF NotObject(Get(config, "web2Options"))
             THEN Err("web2Options must be a non-null object")
             ELSE IF NotObject(Get(config, "web3Options"))
             THEN Err("web3Options must be a non-null object")
             ELSE Ok(New("_Authentication",
                         [enabled |-> Get(config, "enabled"),
                          commonOptions |-> commonOptions.val,
                          web2Options |-> Get(config, "web2Options"),
                          web3Options |-> Get(config, "web3Options")]))

(***************************************************************************)
(* Token gate: roles, options and subscription properties                  *)
(***************************************************************************)
\* an array literal; typeof gives 'object' and Array.isArray gives true
Arr(a) == [k |-> "array", s |-> <<>>, n |-> 0, a |-> a]

\* Array.isArray(v)
IsArray(v) == v.k = "array"

\* the class a class extends
SuperClass(c) ==
    CASE c = "_TokenGate.Role" -> "_Role"
      [] c = "_TokenGate.Options" -> "_TokenGateOptions"
      [] OTHER -> "Object"

\* v instanceof c, for a class c that namespace classes extend
InstanceOfClass(v, c) == v.k = "object" /\ (v.c = c \/ SuperClass(v.c) = c)

_Role(role) ==
    IF MissingString(Get(role, "tokenId"))
    THEN Err("tokenId must be a non-empty string")
    ELSE IF MissingString(Get(role, "role"))
    THEN Err("role must be a non-empty string")
    ELSE Ok(New("_Role", [tokenId |-> Get(role, "tokenId"),
                          role |-> Get(role, "role")]))

\* variant: the elements of roles are not tested with instanceof
_TokenGateOptions_NoInstanceCheck(options) ==
    IF TypeOf(Get(options, "enabled")) # "boolean"
    THEN Err("enabled must be a boolean")
    ELSE IF ~IsArray(Get(options, "roles")) \/ Len(Get(options, "roles").a) = 0
    THEN Err("roles must be a non-empty array")
    ELSE Ok(New("_TokenGateOptions", [enabled |-> Get(options, "enabled"),
                                      roles |-> Arr(Get(options, "roles").a)]))

\* variant: the length of roles is not tested
_TokenGateOptions_NoLengthCheck(options) ==
    IF TypeOf(Get(options, "enabled")) # "boolean"
    THEN Err("enabled must be a boolean")
    ELSE IF ~IsArray(Get(options, "roles"))
    THEN Err("roles must be a non-empty array")
    ELSE IF \E i \in 1..Len(Get(options, "roles").a) :
                ~InstanceOfClass(Get(options, "roles").a[i], "_Role")
    THEN Err("Each role must be an instance of _IRole")
    ELSE Ok(New("_TokenGateOptions", [enabled |-> Get(options, "enabled"),
                                      roles |-> Arr(Get(options, "roles").a)]))

\* roles.map builds a new array that holds the same elements
_TokenGateOptions(options) ==
    IF TypeOf(Get(options, "enabled")) # "boolean"
    THEN Err("enabled must be a boolean")
    ELSE IF ~IsArray(Get(options, "roles")) \/ Len(Get(options, "roles").a) = 0
    THEN Err("roles must be a non-empty array")
    ELSE IF \E i \in 1..Len(Get(options, "roles").a) :
                ~InstanceOfClass(Get(options, "roles").a[i], "_Role")
    THEN Err("Each role must be an instance of _IRole")
    ELSE Ok(New("_TokenGateOptions", [enabled |-> Get(options, "enabled"),
                                      roles |-> Arr(Get(options, "roles").a)]))

\* the members of the subscription enumerations are strings
FREE == Str(<<"f", "r", "e", "e">>)
BASIC == Str(<<"b", "a", "s", "i", "c">>)
PREMIUM == Str(<<"p", "r", "e", "m", "i", "u", "m">>)
ENTERPRISE == Str(<<"e", "n", "t", "e", "r", "p", "r", "i", "s", "e">>)
IPlan == {FREE, BASIC, PREMIUM, ENTERPRISE}
MONTHLY == Str(<<"m", "o", "n", "t", "h", "l", "y">>)
QUARTERLY == Str(<<"q", "u", "a", "r", "t", "e", "r", "l", "y">>)
ANNUAL == Str(<<"a", "n", "n", "u", "a", "l">>)
LIFETIME == Str(<<"l", "i", "f", "e", "t", "i", "m", "e">>)
IPeriodicity == {MONTHLY, QUARTERLY, ANNUAL, LIFETIME}

_Properties(properties) ==
    IF MissingObject(Get(properties, "plan"))
    THEN Err("plan must be a valid object")
    ELSE IF MissingObject(Get(properties, "periodicity"))
    THEN Err("periodicity must be a valid object")
    ELSE Ok(New("_Properties", [plan |-> Get(properties, "plan"),
                                periodicity |-> Get(properties, "periodicity")]))

(***************************************************************************)
(* Twilio secrets and options, Web2 options                                *)
(***************************************************************************)
\* variant: serviceSid is not trimmed before it is tested for emptiness
_Secrets_NoTrim(accountSid, authToken, serviceSid) ==
    IF BlankString(accountSid)
    THEN Err("accountSid must be a non-empty string")
    ELSE IF BlankString(authToken)
    THEN Err("authToken must be a non-empty string")
    ELSE IF TypeOf(serviceSid) # "string" \/ serviceSid.s = <<>>
    THEN Err("serviceSid must be a non-empty string")
    ELSE Ok(New("_Secrets", [accountSid |-> accountSid, authToken |-> authToken,
                             serviceSid |-> serviceSid]))

_Secrets(accountSid, authToken, serviceSid) ==
    IF BlankString(accountSid)
    THEN Err("accountSid must be a non-empty string")
    ELSE IF BlankString(authToken)
    THEN Err("authToken must be a non-empty string")
    ELSE IF BlankString(serviceSid)
    THEN Err("serviceSid must be a non-empty string")
    ELSE Ok(New("_Secrets", [accountSid |-> accountSid, authToken |-> authToken,
                             serviceSid |-> serviceSid]))

\* the secrets are read off twilioSecrets before anything is tested, and the
\* object that was passed in is what the options keep
_TwilioOptions(twilioSecrets, enabled) ==
    IF twilioSecrets.k = "undefined"
    THEN Err("Cannot read properties of undefined (reading 'accountSid')")
    ELSE IF twilioSecrets.k = "null"
    THEN Err("Cannot read properties of null (reading 'accountSid')")
    ELSE LET secrets == _Secrets(Get(twilioSecrets, "accountSid"),
                                 Get(twilioSecrets, "authToken"),
                                 Get(twilioSecrets, "serviceSid"))
         IN  IF ~secrets.ok
             THEN Err(secrets.err)
             ELSE IF TypeOf(enabled) # "boolean"
             THEN Err("enabled must be a boolean")
             ELSE Ok(New("_TwilioOptions", [twilioSecrets |-> twilioSecrets,
                                            enabled |-> enabled]))

_Web2Options(options) ==
    IF TypeOf(Get(options, "confirmation_required")) # "boolean"
    THEN Err("confirmation_required must be a boolean")
    ELSE IF TypeOf(Get(options, "admin_only")) # "boolean"
    THEN Err("admin_only must be a boolean")
    ELSE IF NotObject(Get(options, "sendMailOptions"))
    THEN Err("sendMailOptions must be an object")
    ELSE IF \/ Falsy(Get(Get(options, "sendMailOptions"), "confirm"))
            \/ Falsy(Get(Get(options, "sendMailOptions"), "reset"))
    THEN Err("sendMailOptions must contain confirm and reset properties")
    ELSE IF NotObject(Get(options, "mailerOptions"))
    THEN Err("mailerOptions must be an object")
    ELSE IF NotObject(Get(options, "twilioOptions"))
    THEN Err("twilioOptions must be an object")
    ELSE IF \/ Falsy(Get(Get(options, "twilioOptions"), "twilioSecrets"))
            \/ TypeOf(Get(Get(options, "twilioOptions"), "enabled")) # "boolean"
    THEN Err("twilioOptions must contain twilioSecrets and enabled properties")
    ELSE LET twilioOptions ==
                 _TwilioOptions(Get(Get(options, "twilioOptions"), "twilioSecrets"),
                                Get(Get(options, "twilioOptions"), "enabled"))
         IN  IF ~twilioOptions.ok
             THEN Err(twilioOptions.err)
             ELSE Ok(New("_Web2Options",
                         [confirmation_required |-> Get(options, "confirmation_required"),
                          admin_only |-> Get(options, "admin_only"),
                          sendMailOptions |-> Get(options, "sendMailOptions"),
                          mailerOptions |-> Get(options, "mailerOptions"),
                          twilioOptions |-> twilioOptions.val]))

(***************************************************************************)
(* Identities: the user entity, the wallet entity and the Web2 login       *)
(***************************************************************************)
\* enum IType
WEB2 == Str(<<"w", "e", "b", "2">>)
WEB3 == Str(<<"w", "e", "b", "3">>)
IType == {WEB2, WEB3}

\* s.includes('@')
IncludesAt(s) == \E i \in 1..Len(s) : s[i] = "@"

\* a <= 0 and a < b on values whose typeof is 'number': false when one is NaN
IsFinite(a) == a.k \in {"number", "fraction"}
Twice(a) == IF a.k = "fraction" THEN 2 * a.n + 1 ELSE 2 * a.n
LessThan(a, b) ==
    \/ IsFinite(a) /\ IsFinite(b) /\ Twice(a) < Twice(b)
    \/ IsFinite(a) /\ b.k = "infinity" /\ b.n > 0
    \/ a.k = "infinity" /\ a.n < 0 /\ (IsFinite(b) \/ (b.k = "infinity" /\ b.n > 0))
NotPositive(a) == LessThan(a, Num(0)) \/ a = Num(0)

\* a tag the callback of tags.map throws on
BadTag(tag) ==
    \/ tag.k \in {"undefined", "null"}
    \/ TypeOf(Get(tag, "key")) # "string"
    \/ TypeOf(Get(tag, "value")) # "string"

\* the outcome of tags.map(tag => ...): the first bad element decides the
\* error, and reading tag.key of undefined or null throws a TypeError
CheckTags(tags) ==
    IF \A i \in 1..Len(tags) : ~BadTag(tags[i])
    THEN Ok(Arr(tags))
    ELSE LET first == CHOOSE i \in 1..Len(tags) :
                          BadTag(tags[i]) /\ \A j \in 1..(i - 1) : ~BadTag(tags[j])
         IN  IF tags[first].k = "undefined"
             THEN Err("Cannot read properties of undefined (reading 'key')")
             ELSE IF tags[first].k = "null"
             THEN Err("Cannot read properties of null (reading 'key')")
             ELSE Err("Each tag must have a key and value of type string")

\* variant: an entity without tags is returned when tags is no array
_UserEntity_PartialOnTags(entity) ==
    IF entity.k = "undefined"
    THEN Err("Cannot read properties of undefined (reading 'username')")
    ELSE IF entity.k = "null"
    THEN Err("Cannot read properties of null (reading 'username')")
    ELSE IF BlankString(Get(entity, "username"))
    THEN Err("Username must be a non-empty string")
    ELSE IF TypeOf(Get(entity, "email")) # "string" \/ ~IncludesAt(Get(entity, "email").s)
    THEN Err("Invalid email format")
    ELSE IF TypeOf(Get(entity, "created_at")) # "number" \/ NotPositive(Get(entity, "created_at"))
    THEN Err("Created_at must be a positive number")
    ELSE IF \/ TypeOf(Get(entity, "updated_at")) # "number"
            \/ LessThan(Get(entity, "updated_at"), Get(entity, "created_at"))
    THEN Err("Updated_at must be a number greater than or equal to created_at")
    ELSE IF Get(entity, "type") \notin IType
    THEN Err("Invalid user type")
    ELSE IF ~IsArray(Get(entity, "tags"))
    THEN Ok(New("_UserEntity", [username |-> Get(entity, "username"),
                                email |-> Get(entity, "email"),
                                created_at |-> Get(entity, "created_at"),
                                updated_at |-> Get(entity, "updated_at"),
                                type |-> Get(entity, "type")]))
    ELSE LET tags == CheckTags(Get(entity, "tags").a)
         IN  IF ~tags.ok
             THEN Err(tags.err)
             ELSE Ok(New("_UserEntity", [username |-> Get(entity, "username"),
                                         email |-> Get(entity, "email"),
                                         created_at |-> Get(entity, "created_at"),
                                         updated_at |-> Get(entity, "updated_at"),
                                         type |-> Get(entity, "type"),
                                         tags |-> tags.val]))

_UserEntity(entity) ==
    IF entity.k = "undefined"
    THEN Err("Cannot read properties of undefined (reading 'username')")
    ELSE IF entity.k = "null"
    THEN Err("Cannot read properties of null (reading 'username')")
    ELSE IF BlankString(Get(entity, "username"))
    THEN Err("Username must be a non-empty string")
    ELSE IF TypeOf(Get(entity, "email")) # "string" \/ ~IncludesAt(Get(entity, "email").s)
    THEN Err("Invalid email format")
    ELSE IF TypeOf(Get(entity, "created_at")) # "number" \/ NotPositive(Get(entity, "created_at"))
    THEN Err("Created_at must be a positive number")
    ELSE IF \/ TypeOf(Get(entity, "updated_at")) # "number"
            \/ LessThan(Get(entity, "updated_at"), Get(entity, "created_at"))
    THEN Err("Updated_at must be a number greater than or equal to created_at")
    ELSE IF Get(entity, "type") \notin IType
    THEN Err("Invalid user type")
    ELSE IF ~IsArray(Get(entity, "tags"))
    THEN Err("Tags must be an array")
    ELSE LET tags == CheckTags(Get(entity, "tags").a)
         IN  IF ~tags.ok
             THEN Err(tags.err)
             ELSE Ok(New("_UserEntity", [username |-> Get(entity, "username"),
                                         email |-> Get(entity, "email"),
                                         created_at |-> Get(entity, "created_at"),
                                         updated_at |-> Get(entity, "updated_at"),
                                         type |-> Get(entity, "type"),
                                         tags |-> tags.val]))

\* balance is tested and never assigned
_WalletEntity(entity) ==
    IF BlankString(Get(entity, "walletId"))
    THEN Err("walletId must be a non-empty string")
    ELSE IF BlankString(Get(entity, "publicKey"))
    THEN Err("publicKey must be a non-empty string")
    ELSE IF ~IsArray(Get(entity, "balance"))
    THEN Err("balance must be an array")
    ELSE Ok(New("_WalletEntity", [walletId |-> Get(entity, "walletId"),
                                  publicKey |-> Get(entity, "publicKey")]))

\* the Web2 login response; operatorAccepted is the verdict of the operator
\* constructors of the smart-network library on the operator's fields
_Web2Login(login, operatorAccepted) ==
    LET user == _UserEntity(Get(login, "user"))
        operator == Get(login, "operator")
        nft == Get(operator, "nft")
    IN  IF ~user.ok
        THEN Err(user.err)
        ELSE IF operator.k = "undefined"
        THEN Err("Cannot read properties of undefined (reading 'accountId')")
        ELSE IF operator.k = "null"
        THEN Err("Cannot read properties of null (reading 'accountId')")
        ELSE IF nft.k = "undefined"
        THEN Err("Cannot read properties of undefined (reading 'id')")
        ELSE IF nft.k = "null"
        THEN Err("Cannot read properties of null (reading 'id')")
        ELSE IF ~operatorAccepted
        THEN Err("operator rejected by SmartNetwork.Operator")
        ELSE IF BlankString(Get(login, "accessToken"))
        THEN Err("Access token must be a non-empty string")
        ELSE Ok(New("_Web2Login",
                    [user |-> user.val,
                     operator |-> New("SmartNetwork.Operator.Entity",
                         [accountId |-> Get(operator, "accountId"),
                          publicKey |-> Get(operator, "publicKey"),
                          url |-> Get(operator, "url"),
                          nft |-> New("SmartNetwork.Operator.NFT",
                              [id |-> Get(nft, "id"),
                               serialNumber |-> Get(nft, "serialNumber")])]),
                     accessToken |-> Get(login, "accessToken")]))

(***************************************************************************)
(* Traditional credentials: tags, login and signup                         *)
(***************************************************************************)
\* password.length < 8
MinPasswordLength == 8

\* /^[^\s@]+@[^\s@]+\.[^\s@]+$/.test(s): one '@' with characters before it,
\* no white space, and after the '@' a '.' with characters on both sides
EmailRegexTest(s) ==
    \E i \in 2..Len(s) :
        /\ s[i] = "@"
        /\ \A j \in 1..Len(s) : j # i => s[j] \notin {"@", " "}
        /\ \E d \in (i + 2)..(Len(s) - 1) : s[d] = "."

_Tags(tag) ==
    IF tag.k = "undefined"
    THEN Err("Cannot read properties of undefined (reading 'key')")
    ELSE IF tag.k = "null"
    THEN Err("Cannot read properties of null (reading 'key')")
    ELSE IF BlankString(Get(tag, "key"))
    THEN Err("Key must be a non-empty string")
    ELSE IF BlankString(Get(tag, "value"))
    THEN Err("Value must be a non-empty string")
    ELSE Ok(New("_Tags", [key |-> Get(tag, "key"), value |-> Get(tag, "value")]))

\* variant: a password of exactly eight characters is too short
_DtoLogin_NineCharacters(login) ==
    IF BlankString(Get(login, "username"))
    THEN Err("Username must be a non-empty string")
    ELSE IF TypeOf(Get(login, "email")) # "string" \/ ~EmailRegexTest(Get(login, "email").s)
    THEN Err("Invalid email format")
    ELSE IF \/ TypeOf(Get(login, "password")) # "string"
            \/ Len(Get(login, "password").s) <= MinPasswordLength
    THEN Err("Password must be a string with at least 8 characters")
    ELSE Ok(New("_Login", [username |-> Get(login, "username"),
                           email |-> Get(login, "email"),
                           password |-> Get(login, "password")]))

_DtoLogin(login) ==
    IF BlankString(Get(login, "username"))
    THEN Err("Username must be a non-empty string")
    ELSE IF TypeOf(Get(login, "email")) # "string" \/ ~EmailRegexTest(Get(login, "email").s)
    THEN Err("Invalid email format")
    ELSE IF \/ TypeOf(Get(login, "password")) # "string"
            \/ Len(Get(login, "password").s) < MinPasswordLength
    THEN Err("Password must be a string with at least 8 characters")
    ELSE Ok(New("_Login", [username |-> Get(login, "username"),
                           email |-> Get(login, "email"),
                           password |-> Get(login, "password")]))

\* the outcome of tags.map(tag => new _User.Tags(tag)): the first tag that
\* its constructor rejects decides the error
MapTags(tags) ==
    IF \A i \in 1..Len(tags) : _Tags(tags[i]).ok
    THEN Ok(Arr([i \in 1..Len(tags) |-> _Tags(tags[i]).val]))
    ELSE LET first == CHOOSE i \in 1..Len(tags) :
                          ~_Tags(tags[i]).ok /\ \A j \in 1..(i - 1) : _Tags(tags[j]).ok
         IN  Err(_Tags(tags[first]).err)

_Signup(signup) ==
    IF BlankString(Get(signup, "username"))
    THEN Err("Username must be a non-empty string")
    ELSE IF TypeOf(Get(signup, "email")) # "string" \/ ~EmailRegexTest(Get(signup, "email").s)
    THEN Err("Invalid email format")
    ELSE IF \/ TypeOf(Get(signup, "password")) # "string"
            \/ Len(Get(signup, "password").s) < MinPasswordLength
    THEN Err("Password must be a string with at least 8 characters")
    ELSE IF ~IsArray(Get(signup, "tags")) \/ Len(Get(signup, "tags").a) = 0
    THEN Err("Tags must be a non-empty array")
    ELSE LET tags == MapTags(Get(signup, "tags").a)
         IN  IF ~tags.ok
             THEN Err(tags.err)
             ELSE Ok(New("_Signup", [username |-> Get(signup, "username"),
                                     email |-> Get(signup, "email"),
                                     password |-> Get(signup, "password"),
                                     tags |-> tags.val]))

(***************************************************************************)
(* Second factor: the security code                                        *)
(***************************************************************************)
\* Number.isInteger(v)
IsInteger(v) == v.k = "number"

\* variant: zero is rejected
_Security_Positive(code_2fa) ==
    IF \/ TypeOf(code_2fa) # "number"
       \/ code_2fa.k = "nan"
       \/ ~IsInteger(code_2fa)
       \/ NotPositive(code_2fa)
    THEN Err("code_2fa must be a positive integer")
    ELSE Ok(New("_Security", [code_2fa |-> code_2fa]))

_Security(code_2fa) ==
    IF \/ TypeOf(code_2fa) # "number"
       \/ code_2fa.k = "nan"
       \/ ~IsInteger(code_2fa)
       \/ LessThan(code_2fa, Num(0))
    THEN Err("code_2fa must be a positive integer")
    ELSE Ok(New("_Security", [code_2fa |-> code_2fa]))

(***************************************************************************)
(* Logout responses of the two credential families                         *)
(***************************************************************************)
\* the Web2 response takes one object
_Web2Logout(logoutData) ==
    IF TypeOf(Get(logoutData, "logout")) # "boolean"
    THEN Err("Logout status must be a boolean")
    ELSE IF BlankString(Get(logoutData, "message"))
    THEN Err("Message must be a non-empty string")
    ELSE Ok(New("_Web2Logout", [logout |-> Get(logoutData, "logout"),
                                message |-> Get(logoutData, "message")]))

\* variant: the message is not trimmed before its length is tested
_Web3Logout_NoTrim(logout, message) ==
    IF TypeOf(logout) # "boolean"
    THEN Err("Logout must be a boolean value")
    ELSE IF TypeOf(message) # "string" \/ Len(message.s) = 0
    THEN Err("Message must be a non-empty string")
    ELSE Ok(New("_Web3Logout", [logout |-> logout, message |-> message]))

\* the Web3 response takes two arguments; message.trim().length === 0
_Web3Logout(logout, message) ==
    IF TypeOf(logout) # "boolean"
    THEN Err("Logout must be a boolean value")
    ELSE IF TypeOf(message) # "string" \/ Len(Strip(message.s)) = 0
    THEN Err("Message must be a non-empty string")
    ELSE Ok(New("_Web3Logout", [logout |-> logout, message |-> message]))

Init ==
    /\ pc = "idle"
    /\ op = "none"
    /\ arg = <<>>
    /\ res = Err("")

\* the caller drops the outcome of the last call
Return ==
    /\ pc \in {"done", "mutated"}
    /\ pc' = "idle"
    /\ op' = "none"
    /\ arg' = <<>>
    /\ res' = Err("")

Call(name, input, outcome) ==
    /\ pc = "idle"
    /\ pc' = "done"
    /\ op' = name
    /\ arg' = input
    /\ res' = outcome

SignatureInputs ==
    {Undefined, Null, Str(<<"a">>), Obj([length |-> Num(1)])}
        \cup {Bytes(b) : b \in Strings({"x"}, MaxSigLen)}

AccountInputs ==
    {Undefined, Null, Num(1)} \cup {Str(s) : s \in Strings({"a", " "}, MaxNameLen)}

NewSignedData ==
    /\ pc = "idle"
    /\ \E signature \in SignatureInputs, account \in AccountInputs :
           Call("SignedData", <<signature, account>>, _SignedData(signature, account))

TokenInputs ==
    {Undefined, Null, Num(1)} \cup {Str(s) : s \in Strings({"a", ".", "+"}, MaxTokLen)}

NewData ==
    /\ pc = "idle"
    /\ \E token \in TokenInputs : Call("Data", <<token>>, _Data(token))

\* urls are drawn over a letter, the colon and the space: none has an
\* authority part or a special scheme
UrlInputs ==
    {Undefined, Num(1)} \cup {Str(s) : s \in Strings({"a", ":", " "}, MaxUrlLen)}

NodeInputs ==
    {Undefined, Num(1), Str(<<>>), Str(<<" ">>), Str(<<"a">>)}

PayloadDataInputs ==
    {Undefined, Null, Str(<<"a">>), Obj(<<>>)}
        \cup {Obj([token |-> t]) :
                t \in {Undefined, Num(1), Str(<<>>), Str(<<"a">>),
                       Str(<<"a", ".", "a">>), Str(<<"a", ".", ".", "a">>),
                       Str(<<"a", ".", "a", ".", "a">>)}}

NewPayload ==
    /\ pc = "idle"
    /\ \E url \in UrlInputs, node \in NodeInputs, data \in PayloadDataInputs :
           LET payload == Obj([url |-> url, node |-> node, data |-> data])
           IN  Call("Payload", <<payload>>, _Payload(payload))

\* values that are no object literal
Primitives == {Undefined, Null, False, Num(0), Str(<<>>), Str(<<"a">>)}

SignedDataObjects ==
    {Obj(<<>>)}
        \cup {Obj([signature |-> sig, serverSigningAccount |-> acc]) :
                sig \in {Undefined, Bytes(<<>>), Bytes(<<"x">>)},
                acc \in {Undefined, Str(<<>>), Str(<<"a">>)}}

PayloadObjects ==
    {Obj(<<>>)}
        \cup {Obj([url |-> url, node |-> node, data |-> data]) :
                url \in {Str(<<>>), Str(<<"a", ":">>)},
                node \in {Str(<<>>), Str(<<"a">>)},
                data \in {Undefined, Obj([token |-> Str(<<"a">>)]),
                          Obj([token |-> Str(<<"a", ".", "a", ".", "a">>)])}}

NewAuthenticate ==
    /\ pc = "idle"
    /\ \E signedData \in Primitives \cup SignedDataObjects,
          payload \in Primitives \cup PayloadObjects :
           LET data == Obj([signedData |-> signedData, payload |-> payload])
           IN  Call("Authenticate", <<data>>, _Authenticate(data))

OperatorInputs ==
    Primitives \cup {Obj(<<>>), Obj([accountId |-> Str(<<"a">>)])}

SigninSignedDataObjects ==
    {Obj(<<>>)}
        \cup {Obj([userSignature |-> Bytes(<<"x">>)])}
        \cup {Obj([signedPayload |-> sp]) :
                sp \in {Obj([serverSignature |-> Bytes(<<"x">>),
                             originalPayload |-> p]) : p \in PayloadObjects}}
        \cup {Obj([signedPayload |-> sp, userSignature |-> us]) :
                sp \in {Undefined, Obj(<<>>)}
                    \cup {Obj([serverSignature |-> Bytes(<<"x">>),
                                originalPayload |-> p]) : p \in PayloadObjects},
                us \in {Undefined, Bytes(<<>>), Bytes(<<"x">>)}}

NewSigninLogin ==
    /\ pc = "idle"
    /\ \E operator \in OperatorInputs,
          signedData \in Primitives \cup SigninSignedDataObjects :
           LET login == Obj([operator |-> operator, signedData |-> signedData])
           IN  Call("SigninLogin", <<login>>, _SigninLogin(login))

StatusInputs == IStatus \cup {Undefined, Null, Str(<<>>), Obj(<<>>)}

\* string arguments of the second-factor records
FieldInputs ==
    {Undefined, Num(1)} \cup {Str(s) : s \in Strings({"a", " "}, MaxFieldLen)}

NewAuth ==
    /\ pc = "idle"
    /\ \E status \in StatusInputs, factorSid, identity, qr_code \in FieldInputs :
           Call("Auth", <<status, factorSid, identity, qr_code>>,
                _Auth(status, factorSid, identity, qr_code))

NewCreate ==
    /\ pc = "idle"
    /\ \E factorSid, identity, uri, secret, message \in FieldInputs :
           Call("Create", <<factorSid, identity, uri, secret, message>>,
                _Create(factorSid, identity, uri, secret, message))

NewVerify ==
    /\ pc = "idle"
    /\ \E success \in {True, False, Undefined, Str(<<"a">>)}, message \in FieldInputs :
           Call("Verify", <<success, message>>, _Verify(success, message))

NewDelete ==
    /\ pc = "idle"
    /\ \E success \in {True, False, Undefined, Str(<<"a">>)}, message \in FieldInputs :
           Call("Delete", <<success, message>>, _Delete(success, message))

MetadataObjects ==
    {Obj(<<>>)}
        \cup {Obj([name |-> name, description |-> Str(<<"a">>),
                   creator |-> Str(<<"a">>), properties |-> properties,
                   image |-> image]) :
                name \in {Str(<<>>), Str(<<" ">>), Str(<<"a">>)},
                properties \in {Undefined, Obj(<<>>)},
                image \in {Undefined, Str(<<"a">>)}}

NewTokenGateEntity ==
    /\ pc = "idle"
    /\ \E metadata \in Primitives \cup MetadataObjects,
          serial_number \in {Undefined, NaN, Num(0), Num(1), Str(<<"1">>)},
          token_id \in {Undefined, Num(1)}
                          \cup {Str(s) : s \in Strings({"a", " "}, MaxNameLen)} :
           LET entity == Obj([metadata |-> metadata, serial_number |-> serial_number,
                              token_id |-> token_id])
           IN  Call("TokenGateEntity", <<entity>>, _TokenGateEntity(entity))

ValidSecrets ==
    Obj([accountSid |-> Str(<<"a">>), authToken |-> Str(<<"a">>),
         serviceSid |-> Str(<<"a">>)])

ValidWeb2Options ==
    Obj([confirmation_required |-> True, admin_only |-> False,
         sendMailOptions |-> Obj([confirm |-> Obj(<<>>), reset |-> Obj(<<>>)]),
         mailerOptions |-> Obj(<<>>),
         twilioOptions |-> Obj([twilioSecrets |-> ValidSecrets, enabled |-> True])])

CommonOptionsInputs ==
    {Undefined, Null, Obj(<<>>)}
        \cup {Obj([redis |-> Obj(<<>>), jwt |-> jwt, cookieOptions |-> Obj(<<>>),
                   operator |-> Obj(<<>>), passport |-> passport,
                   appName |-> appName]) :
                jwt \in {Null, Obj(<<>>)},
                passport \in IPassportStrategy \cup {Undefined, Str(<<"a">>)},
                appName \in {Str(<<" ">>), Str(<<"a">>)}}

Web3OptionsInputs ==
    Primitives
        \cup {Obj(<<>>),
              Obj([tokenGateOptions |-> Obj([enabled |-> True])]),
              Obj([tokenGateOptions |->
                      New("_TokenGate.Options", [enabled |-> True])])}

NewAuthentication ==
    /\ pc = "idle"
    /\ \E enabled \in {True, False, Undefined, Str(<<"a">>)},
          commonOptions \in CommonOptionsInputs,
          web2Options \in {Undefined, Null, Str(<<"a">>), Obj(<<>>), ValidWeb2Options},
          web3Options \in Web3OptionsInputs :
           LET config == Obj([enabled |-> enabled, commonOptions |-> commonOptions,
                              web2Options |-> web2Options,
                              web3Options |-> web3Options])
           IN  Call("Authentication", <<config>>, _Authentication(config))

RoleFieldInputs == {Undefined, Num(1), Str(<<>>), Str(<<" ">>), Str(<<"a">>), Str(<<"b">>)}

NewRole ==
    /\ pc = "idle"
    /\ \E tokenId \in RoleFieldInputs, role \in RoleFieldInputs :
           LET input == Obj([tokenId |-> tokenId, role |-> role])
           IN  Call("Role", <<input>>, _Role(input))

\* what a caller may put in a list of roles: plain records, instances built
\* by the role constructors, and values that are not roles at all
RoleRecords ==
    {Obj([tokenId |-> Str(<<"a">>), role |-> role]) :
        role \in {Str(<<"a">>), Str(<<"b">>), Str(<<>>)}}
RoleInstances ==
    {New(c, [tokenId |-> Str(<<"a">>), role |-> role]) :
        c \in {"_Role", "_TokenGate.Role"}, role \in {Str(<<"a">>), Str(<<"b">>)}}
RoleElements == RoleRecords \cup RoleInstances \cup {Undefined, Str(<<"a">>)}

RolesInputs ==
    {Undefined, Null, Str(<<"a">>), Obj(<<>>)}
        \cup {Arr(a) : a \in UNION {[1..m -> RoleElements] : m \in 0..MaxRoles}}

NewTokenGateOptions ==
    /\ pc = "idle"
    /\ \E enabled \in {True, False, Undefined, Str(<<"a">>)}, roles \in RolesInputs :
           LET options == Obj([enabled |-> enabled, roles |-> roles])
           IN  Call("TokenGateOptions", <<options>>, _TokenGateOptions(options))

NewProperties ==
    /\ pc = "idle"
    /\ \E plan \in IPlan \cup {Undefined, Null, Obj(<<>>)},
          periodicity \in IPeriodicity \cup {Undefined, Null, Obj(<<>>)} :
           LET properties == Obj([plan |-> plan, periodicity |-> periodicity])
           IN  Call("Properties", <<properties>>, _Properties(properties))

SecretInputs == {Undefined, Num(1), Str(<<>>), Str(<<" ">>), Str(<<"a">>)}

NewSecrets ==
    /\ pc = "idle"
    /\ \E accountSid \in SecretInputs, authToken \in SecretInputs,
          serviceSid \in SecretInputs :
           Call("Secrets", <<accountSid, authToken, serviceSid>>,
                _Secrets(accountSid, authToken, serviceSid))

TwilioSecretsInputs ==
    {Undefined, Null, Str(<<"a">>), Obj(<<>>), ValidSecrets,
     Obj([accountSid |-> Str(<<"a">>), authToken |-> Str(<<" ">>),
          serviceSid |-> Str(<<"a">>)]),
     New("_Secrets", ValidSecrets.f)}

NewTwilioOptions ==
    /\ pc = "idle"
    /\ \E twilioSecrets \in TwilioSecretsInputs,
          enabled \in {True, False, Undefined, Str(<<"a">>)} :
           Call("TwilioOptions", <<twilioSecrets, enabled>>,
                _TwilioOptions(twilioSecrets, enabled))

Web2OptionsInputs ==
    {Obj(<<>>)}
        \cup {Obj([confirmation_required |-> confirmation_required,
                   admin_only |-> admin_only,
                   sendMailOptions |-> sendMailOptions,
                   mailerOptions |-> mailerOptions,
                   twilioOptions |-> twilioOptions]) :
                confirmation_required \in {True, Undefined},
                admin_only \in {False, Str(<<"a">>)},
                sendMailOptions \in {Undefined, Null, Obj(<<>>),
                                     Obj([confirm |-> Obj(<<>>)]),
                                     Obj([confirm |-> Obj(<<>>), reset |-> Obj(<<>>)])},
                mailerOptions \in {Null, Obj(<<>>)},
                twilioOptions \in {Undefined, Obj(<<>>),
                                   Obj([twilioSecrets |-> ValidSecrets]),
                                   Obj([twilioSecrets |-> Obj(<<>>), enabled |-> True]),
                                   Obj([twilioSecrets |-> Str(<<"a">>), enabled |-> True]),
                                   Obj([twilioSecrets |-> ValidSecrets, enabled |-> True])}}

NewWeb2Options ==
    /\ pc = "idle"
    /\ \E options \in Web2OptionsInputs :
           Call("Web2Options", <<options>>, _Web2Options(options))

ValidTag == Obj([key |-> Str(<<"a">>), value |-> Str(<<"b">>)])

TagsInputs ==
    {Undefined, Obj(<<>>), Arr(<<>>), Arr(<<ValidTag>>), Arr(<<ValidTag, ValidTag>>),
     Arr(<<Obj([key |-> Str(<<>>), value |-> Str(<<>>)])>>),
     Arr(<<Obj([key |-> Num(1), value |-> Str(<<"b">>)])>>),
     Arr(<<ValidTag, Obj(<<>>)>>), Arr(<<ValidTag, Undefined>>)}

NewUserEntity ==
    /\ pc = "idle"
    /\ \E username \in {Undefined, Str(<<" ">>), Str(<<"a">>)},
          email \in {Num(1), Str(<<"a">>), Str(<<"@">>), Str(<<"a", "@", "a", ".", "a">>)},
          created_at \in {Undefined, NaN, Num(0), Num(2)},
          updated_at \in {Str(<<"2">>), NaN, Num(1), Num(2)},
          type \in IType \cup {Undefined, Str(<<"a">>)},
          tags \in TagsInputs :
           LET entity == Obj([username |-> username, email |-> email,
                              created_at |-> created_at, updated_at |-> updated_at,
                              type |-> type, tags |-> tags])
           IN  Call("UserEntity", <<entity>>, _UserEntity(entity))

BalanceInputs ==
    {Undefined, Null, Obj(<<>>), Arr(<<>>),
     Arr(<<New("_Entity", [token_id |-> Str(<<"a">>), serial_number |-> Num(1),
                           metadata |-> Obj(<<>>)])>>)}

NewWalletEntity ==
    /\ pc = "idle"
    /\ \E walletId \in NodeInputs, publicKey \in NodeInputs, balance \in BalanceInputs :
           LET entity == Obj([walletId |-> walletId, publicKey |-> publicKey,
                              balance |-> balance])
           IN  Call("WalletEntity", <<entity>>, _WalletEntity(entity))

ValidUser ==
    Obj([username |-> Str(<<"a">>), email |-> Str(<<"a", "@", "a", ".", "a">>),
         created_at |-> Num(2), updated_at |-> Num(2), type |-> WEB2,
         tags |-> Arr(<<ValidTag>>)])

OperatorInputsWeb2 ==
    {Undefined, Null, Obj(<<>>),
     Obj([accountId |-> Str(<<"a">>), publicKey |-> Str(<<"a">>),
          url |-> Str(<<"a">>), nft |-> Null]),
     Obj([accountId |-> Str(<<"a">>), publicKey |-> Str(<<"a">>),
          url |-> Str(<<"a">>),
          nft |-> Obj([id |-> Str(<<"a">>), serialNumber |-> Num(1)])])}

NewWeb2Login ==
    /\ pc = "idle"
    /\ \E user \in {Undefined, Obj(<<>>), ValidUser},
          operator \in OperatorInputsWeb2,
          accessToken \in {Undefined, Str(<<" ">>), Str(<<"a">>)},
          operatorAccepted \in BOOLEAN :
           LET login == Obj([user |-> user, operator |-> operator,
                             accessToken |-> accessToken])
           IN  Call("Web2Login", <<login>>, _Web2Login(login, operatorAccepted))

(***************************************************************************)
(* The caller keeps the objects it passed to a constructor and may write   *)
(* to them afterwards.                                                     *)
(***************************************************************************)
\* the fields in which a constructor stores the very object its input
\* carries under the same name (this.x = input.x, no copy and no freeze)
HeldFields ==
    [Authenticate |-> {"signedData", "payload"},
     SigninLogin |-> {"operator", "signedData"},
     TokenGateEntity |-> {"metadata"},
     Authentication |-> {"web2Options", "web3Options"}]

\* o after o[p] = x
Assign(o, p, x) ==
    [o EXCEPT !.f = [q \in DOMAIN o.f \cup {p} |-> IF q = p THEN x ELSE o.f[q]]]

\* one write of the caller to an object it passed in: a property of a nested
\* object, a property of an element of tags, or a push onto tags.  The entity
\* reads the same nested object and the same elements; its array of tags is
\* the one that map built
CallerMutates ==
    /\ pc = "done"
    /\ res.ok
    /\ \/ /\ op \in DOMAIN HeldFields
          /\ \E name \in HeldFields[op] :
                 /\ arg[1].f[name].k = "object"
                 /\ \E p \in DOMAIN arg[1].f[name].f \cup {"extra"} :
                        LET written == Assign(arg[1].f[name], p, Null)
                        IN  /\ arg' = <<[arg[1] EXCEPT !.f[name] = written]>>
                            /\ res' = [res EXCEPT !.val.f[name] = written]
       \/ /\ op = "UserEntity"
          /\ \E i \in 1..Len(arg[1].f.tags.a), p \in {"key", "value"} :
                 LET written == Assign(arg[1].f.tags.a[i], p, Null)
                 IN  /\ arg' = <<[arg[1] EXCEPT !.f.tags.a[i] = written]>>
                     /\ res' = [res EXCEPT !.val.f.tags.a[i] = written]
       \/ /\ op = "UserEntity"
          /\ arg' = <<[arg[1] EXCEPT !.f.tags.a = Append(@, Null)]>>
          /\ res' = res
    /\ pc' = "mutated"
    /\ UNCHANGED op

\* "a@a.a" has the shape of "john@example.com"
SampleEmail == Str(<<"a", "@", "a", ".", "a">>)

EmailInputs ==
    {Undefined, Num(1)}
        \cup {Str(s) : s \in Strings({"a", "@", "."}, MaxEmailLen)}
        \cup {Str(<<" ", "@", "a", ".", "a">>), Str(<<"a", "@", " ", ".", "a">>),
              Str(<<"a", "@", "a", ".", " ">>)}

\* c repeated n times
Repeat(c, n) == [i \in 1..n |-> c]

PasswordInputs ==
    {Undefined, Num(12345678)}
        \cup {Str(Repeat(c, n)) : c \in {"a", " "}, n \in 0..MaxPasswordLen}

SamplePassword == Str(Repeat("a", MinPasswordLength))

\* every email with the other fields valid, and every password with a few
\* usernames and emails
DtoLoginInputs ==
    {Obj([username |-> Str(<<"a">>), email |-> email, password |-> SamplePassword]) :
        email \in EmailInputs}
    \cup {Obj([username |-> username, email |-> email, password |-> password]) :
            username \in {Undefined, Str(<<" ">>), Str(<<"a">>)},
            email \in {SampleEmail, Str(<<"@">>), Str(<<"a", "@", "a">>)},
            password \in PasswordInputs}

NewDtoLogin ==
    /\ pc = "idle"
    /\ \E login \in DtoLoginInputs :
           Call("DtoLogin", <<login>>, _DtoLogin(login))

SignupTagsInputs ==
    {Undefined, Arr(<<>>), Arr(<<ValidTag>>),
     Arr(<<ValidTag, Obj([key |-> Str(<<>>), value |-> Str(<<"b">>)])>>),
     Arr(<<Undefined, Obj(<<>>)>>)}

SignupInputs ==
    {Obj([username |-> Str(<<"a">>), email |-> email, password |-> SamplePassword,
          tags |-> Arr(<<ValidTag>>)]) :
        email \in EmailInputs}
    \cup {Obj([username |-> username, email |-> email, password |-> password,
               tags |-> tags]) :
            username \in {Undefined, Str(<<" ">>), Str(<<"a">>)},
            email \in {SampleEmail, Str(<<"@">>)},
            password \in PasswordInputs,
            tags \in SignupTagsInputs}

NewSignup ==
    /\ pc = "idle"
    /\ \E signup \in SignupInputs :
           Call("Signup", <<signup>>, _Signup(signup))

CodeInputs ==
    {Undefined, Null, True, Str(<<"1">>), NaN, Inf(1), Inf(-1)}
        \cup {Num(n) : n \in (-MaxCode)..MaxCode}
        \cup {Frac(n) : n \in (-MaxCode)..(MaxCode - 1)}

NewSecurity ==
    /\ pc = "idle"
    /\ \E code_2fa \in CodeInputs :
           Call("Security", <<code_2fa>>, _Security(code_2fa))

LogoutInputs == {True, False, Undefined, Null, Num(0), Str(<<"t">>)}

MessageInputs ==
    {Undefined, Num(1)} \cup {Str(s) : s \in Strings({"a", " "}, MaxMessageLen)}

NewWeb2Logout ==
    /\ pc = "idle"
    /\ \E logout \in LogoutInputs, message \in MessageInputs :
           LET logoutData == Obj([logout |-> logout, message |-> message])
           IN  Call("Web2Logout", <<logoutData>>, _Web2Logout(logoutData))

NewWeb3Logout ==
    /\ pc = "idle"
    /\ \E logout \in LogoutInputs, message \in MessageInputs :
           Call("Web3Logout", <<logout, message>>, _Web3Logout(logout, message))

Next ==
    \/ NewSignedData
    \/ NewData
    \/ NewPayload
    \/ NewAuthenticate
    \/ NewSigninLogin
    \/ NewAuth
    \/ NewCreate
    \/ NewVerify
    \/ NewDelete
    \/ NewTokenGateEntity
    \/ NewAuthentication
    \/ NewRole
    \/ NewTokenGateOptions
    \/ NewProperties
    \/ NewSecrets
    \/ NewTwilioOptions
    \/ NewWeb2Options
    \/ NewUserEntity
    \/ NewWalletEntity
    \/ NewWeb2Login
    \/ CallerMutates
    \/ NewDtoLogin
    \/ NewSignup
    \/ NewSecurity
    \/ NewWeb2Logout
    \/ NewWeb3Logout
    \/ Return

Spec == Init /\ [][Next]_vars

(***************************************************************************)
(* Several constructor invocations in progress at once.  An invocation     *)
(* runs its constructor one field at a time: each step tests one field of  *)
(* its input and either throws or assigns the field to its own object.     *)
(* pc, op, arg and res hold one entry per invocation; pc is the field the  *)
(* invocation tests next.                                                  *)
(***************************************************************************)
Invocations == 1..NumInvocations

\* the fields of a constructor, in the order it validates and assigns them
Fields ==
    [Signup |-> <<"username", "email", "password", "tags">>,
     Web2Options |-> <<"confirmation_required", "admin_only", "sendMailOptions",
                       "mailerOptions", "twilioOptions">>]

\* variant: the email pattern is one object of the module that remembers a
\* match in progress, so a test fails while another invocation holds an
\* email it has matched
EmailStage_SharedPattern(input) ==
    IF \/ TypeOf(Get(input, "email")) # "string"
       \/ ~EmailRegexTest(Get(input, "email").s)
       \/ \E j \in Invocations :
              pc[j] \notin {"idle", "done"} /\ "email" \in DOMAIN res[j].this
    THEN Err("Invalid email format")
    ELSE Ok(Get(input, "email"))

\* the email is matched against a pattern the invocation builds for itself
EmailStage(input) ==
    IF \/ TypeOf(Get(input, "email")) # "string"
       \/ ~EmailRegexTest(Get(input, "email").s)
    THEN Err("Invalid email format")
    ELSE Ok(Get(input, "email"))

\* the test and the assignment of one field: the error thrown, or the value
\* assigned to this[field]
Stage(ctor, field, input) ==
    CASE ctor = "Signup" /\ field = "username" ->
            IF BlankString(Get(input, "username"))
            THEN Err("Username must be a non-empty string")
            ELSE Ok(Get(input, "username"))
      [] ctor = "Signup" /\ field = "email" -> EmailStage(input)
      [] ctor = "Signup" /\ field = "password" ->
            IF \/ TypeOf(Get(input, "password")) # "string"
               \/ Len(Get(input, "password").s) < MinPasswordLength
            THEN Err("Password must be a string with at least 8 characters")
            ELSE Ok(Get(input, "password"))
      [] ctor = "Signup" /\ field = "tags" ->
            IF ~IsArray(Get(input, "tags")) \/ Len(Get(input, "tags").a) = 0
            THEN Err("Tags must be a non-empty array")
            ELSE MapTags(Get(input, "tags").a)
      [] ctor = "Web2Options" /\ field = "confirmation_required" ->
            IF TypeOf(Get(input, "confirmation_required")) # "boolean"
            THEN Err("confirmation_required must be a boolean")
            ELSE Ok(Get(input, "confirmation_required"))
      [] ctor = "Web2Options" /\ field = "admin_only" ->
            IF TypeOf(Get(input, "admin_only")) # "boolean"
            THEN Err("admin_only must be a boolean")
            ELSE Ok(Get(input, "admin_only"))
      [] ctor = "Web2Options" /\ field = "sendMailOptions" ->
            IF NotObject(Get(input, "sendMailOptions"))
            THEN Err("sendMailOptions must be an object")
            ELSE IF \/ Falsy(Get(Get(input, "sendMailOptions"), "confirm"))
                    \/ Falsy(Get(Get(input, "sendMailOptions"), "reset"))
            THEN Err("sendMailOptions must contain confirm and reset properties")
            ELSE Ok(Get(input, "sendMailOptions"))
      [] ctor = "Web2Options" /\ field = "mailerOptions" ->
            IF NotObject(Get(input, "mailerOptions"))
            THEN Err("mailerOptions must be an object")
            ELSE Ok(Get(input, "mailerOptions"))
      [] ctor = "Web2Options" /\ field = "twilioOptions" ->
            IF NotObject(Get(input, "twilioOptions"))
            THEN Err("twilioOptions must be an object")
            ELSE IF \/ Falsy(Get(Get(input, "twilioOptions"), "twilioSecrets"))
                    \/ TypeOf(Get(Get(input, "twilioOptions"), "enabled")) # "boolean"
            THEN Err("twilioOptions must contain twilioSecrets and enabled properties")
            ELSE _TwilioOptions(Get(Get(input, "twilioOptions"), "twilioSecrets"),
                                Get(Get(input, "twilioOptions"), "enabled"))

\* the place of a field in the constructor
Index(ctor, field) == CHOOSE k \in 1..Len(Fields[ctor]) : Fields[ctor][k] = field

\* the class of the object a constructor builds
ClassOf(ctor) == IF ctor = "Signup" THEN "_Signup" ELSE "_Web2Options"

\* the outcome of the constructor when nothing else runs
Alone(ctor, input) == IF ctor = "Signup" THEN _Signup(input) ELSE _Web2Options(input)

ParallelInputs ==
    [Signup |->
        {Obj([username |-> username, email |-> email, password |-> password,
              tags |-> tags]) :
            username \in {Str(<<"a">>)},
            email \in {SampleEmail, Str(<<"@">>)},
            password \in {SamplePassword, Str(<<"a">>)},
            tags \in {Arr(<<ValidTag>>), Arr(<<>>)}}
        \cup {Obj(<<>>)},
     Web2Options |->
        {ValidWeb2Options, Obj(<<>>),
         Obj([confirmation_required |-> True, admin_only |-> False,
              sendMailOptions |-> Obj([confirm |-> Obj(<<>>)])]),
         Obj([confirmation_required |-> True, admin_only |-> False,
              sendMailOptions |-> Obj([confirm |-> Obj(<<>>), reset |-> Obj(<<>>)]),
              mailerOptions |-> Obj(<<>>),
              twilioOptions |-> Obj([twilioSecrets |-> Obj(<<>>), enabled |-> True])])}]

InitPar ==
    /\ pc = [i \in Invocations |-> "idle"]
    /\ op = [i \in Invocations |-> "none"]
    /\ arg = [i \in Invocations |-> Undefined]
    /\ res = [i \in Invocations |-> [this |-> <<>>, out |-> Err("")]]

\* new ctor(input) is entered: this is a fresh object
Begin(i) ==
    /\ pc[i] = "idle"
    /\ \E ctor \in DOMAIN Fields :
           \E input \in ParallelInputs[ctor] :
               /\ op' = [op EXCEPT ![i] = ctor]
               /\ arg' = [arg EXCEPT ![i] = input]
    /\ pc' = [pc EXCEPT ![i] = Fields[op'[i]][1]]
    /\ UNCHANGED res

\* the next field is tested: the constructor throws, or assigns the field
\* and, after the last one, returns this
Step(i) ==
    /\ pc[i] \notin {"idle", "done"}
    /\ LET field == pc[i]
           stage == Stage(op[i], field, arg[i])
           this == [name \in DOMAIN res[i].this \cup {field} |->
                       IF name = field THEN stage.val ELSE res[i].this[name]]
       IN  IF ~stage.ok
           THEN /\ res' = [res EXCEPT ![i].out = Err(stage.err)]
                /\ pc' = [pc EXCEPT ![i] = "done"]
           ELSE IF Index(op[i], field) = Len(Fields[op[i]])
           THEN /\ res' = [res EXCEPT ![i] = [this |-> this,
                                              out |-> Ok(New(ClassOf(op[i]), this))]]
                /\ pc' = [pc EXCEPT ![i] = "done"]
           ELSE /\ res' = [res EXCEPT ![i].this = this]
                /\ pc' = [pc EXCEPT ![i] = Fields[op[i]][Index(op[i], field) + 1]]
    /\ UNCHANGED <<op, arg>>

NextPar ==
    \E i \in Invocations :
        \/ Begin(i)
        \/ Step(i)

SpecPar == InitPar /\ [][NextPar]_vars

(***************************************************************************)
(* Properties                                                              *)
(***************************************************************************)
\* v is an object other than null
IsObject(v) ==
    v.k \notin {"undefined", "null", "true", "false", "number", "nan", "fraction",
                "infinity", "string"}

\* v is a string with a character that is not white space
IsSolidString(v) == v.k = "string" /\ \E i \in 1..Len(v.s) : v.s[i] # " "

\* C1 (as stated): an entity a constructor returns satisfies the invariants of
\* its own type and of every entity nested in it: the signedData and payload of
\* an Authenticate, the metadata of a TokenGateEntity and the web3Options of an
\* AuthConfiguration would each pass their own constructor.
C1_NestedInvariantsHold ==
    /\ (op = "Authenticate" /\ res.ok) =>
            /\ _SignedData(Get(res.val.f.signedData, "signature"),
                           Get(res.val.f.signedData, "serverSigningAccount")).ok
            /\ _Payload(res.val.f.payload).ok
    /\ (op = "TokenGateEntity" /\ res.ok) => _Metadata(res.val.f.metadata).ok
    /\ (op = "Authentication" /\ res.ok) => _Web3Options(res.val.f.web3Options).ok

\* C1 (amended): an Authenticate, TokenGateEntity or AuthConfiguration that a
\* constructor returns satisfies the invariants of its own fields; of an object
\* nested in it as given (signedData, payload, metadata, web2Options,
\* web3Options) only that it is a non-null object.
C1_OwnInvariantsHold ==
    /\ (op = "Authenticate" /\ res.ok) =>
            /\ IsObject(res.val.f.signedData)
            /\ IsObject(res.val.f.payload)
    /\ (op = "TokenGateEntity" /\ res.ok) =>
            /\ IsObject(res.val.f.metadata)
            /\ res.val.f.serial_number.k = "number"
            /\ IsSolidString(res.val.f.token_id)
    /\ (op = "Authentication" /\ res.ok) =>
            /\ res.val.f.enabled \in {True, False}
            /\ res.val.f.commonOptions.f.passport \in {REDIS, JWT}
            /\ IsSolidString(res.val.f.commonOptions.f.appName)
            /\ \A name \in {"redis", "jwt", "cookieOptions", "operator"} :
                    IsObject(res.val.f.commonOptions.f[name])
            /\ IsObject(res.val.f.web2Options)
            /\ IsObject(res.val.f.web3Options)

\* an Authenticate was returned whose signedData has an empty signature
C1_Witness ==
    /\ op = "Authenticate"
    /\ res.ok
    /\ Get(res.val.f.signedData, "signature") = Bytes(<<>>)

\* C5: constructing a SecondFactorState from a status of the enumeration and
\* three strings that are not empty (here even: not blank) succeeds, and the
\* record carries that status.
C5_EveryStatusAccepted ==
    (/\ op = "Auth"
     /\ arg[1] \in IStatus
     /\ \A i \in 2..4 : IsSolidString(arg[i]))
        => (res.ok /\ res.val.f.status = arg[1])

\* the two signature layers of the sign-in signed data are present
HasBothLayers(signedData) ==
    /\ IsObject(Get(signedData, "signedPayload"))
    /\ Get(Get(signedData, "signedPayload"), "serverSignature").k = "bytes"
    /\ IsObject(Get(Get(signedData, "signedPayload"), "originalPayload"))
    /\ Get(signedData, "userSignature").k = "bytes"

\* C6 (as stated): a constructed sign-in Login carries both signature layers,
\* and construction fails when one of them is missing.
C6_BothLayersPresent ==
    (op = "SigninLogin" /\ res.ok) => HasBothLayers(res.val.f.signedData)

\* C6 (amended): sign-in Login construction succeeds exactly when operator and
\* signedData are non-null objects, and the Login holds them as given; the
\* content of signedData is not inspected.
C6_LoginShallow ==
    op = "SigninLogin" =>
        /\ res.ok <=> (IsObject(arg[1].f.operator) /\ IsObject(arg[1].f.signedData))
        /\ res.ok => /\ res.val.f.operator = arg[1].f.operator
                     /\ res.val.f.signedData = arg[1].f.signedData

\* a Login was returned that carries both signature layers
C6_Witness ==
    /\ op = "SigninLogin"
    /\ res.ok
    /\ HasBothLayers(res.val.f.signedData)

\* C7: Authenticate construction succeeds exactly when signedData and payload
\* are non-null objects, whatever their fields, and the Authenticate holds the
\* two as given.
C7_AuthenticateShallow ==
    op = "Authenticate" =>
        /\ res.ok <=> (IsObject(arg[1].f.signedData) /\ IsObject(arg[1].f.payload))
        /\ res.ok => /\ res.val.f.signedData = arg[1].f.signedData
                     /\ res.val.f.payload = arg[1].f.payload

\* an Authenticate was returned for a signedData and a payload without fields
C7_Witness ==
    /\ op = "Authenticate"
    /\ res.ok
    /\ res.val.f.signedData = Obj(<<>>)
    /\ res.val.f.payload = Obj(<<>>)

\* [A-Za-z0-9-_], the base64url alphabet
Base64UrlChars == {"a", "-", "_"}

\* three non-empty segments over the base64url alphabet, separated by dots
ThreeSegments(s) ==
    \E i \in 2..Len(s) : \E j \in (i + 2)..(Len(s) - 1) :
        /\ s[i] = "."
        /\ s[j] = "."
        /\ \A x \in (1..Len(s)) \ {i, j} : s[x] \in Base64UrlChars

\* C8: HandshakePayload construction fails exactly when url is empty or does
\* not parse, node is empty, or data is absent, has no token or has a token
\* that is not of the three-segment shape.
C8_PayloadAcceptance ==
    op = "Payload" =>
        (res.ok <=>
            /\ arg[1].f.url.k = "string"
            /\ UrlParses(arg[1].f.url.s)
            /\ arg[1].f.node.k = "string"
            /\ arg[1].f.node.s # <<>>
            /\ IsObject(arg[1].f.data)
            /\ Get(arg[1].f.data, "token").k = "string"
            /\ ThreeSegments(Get(arg[1].f.data, "token").s))

\* C9: AuthToken construction succeeds exactly for the strings of the
\* three-segment shape.
C9_TokenAcceptance ==
    op = "Data" => (res.ok <=> (arg[1].k = "string" /\ ThreeSegments(arg[1].s)))

\* C10: SignedData construction fails exactly when signature is no byte
\* sequence or is empty, or serverSigningAccount is no string, is empty or is
\* white space only.
C10_SignedDataAcceptance ==
    op = "SignedData" =>
        (~res.ok <=>
            \/ arg[1].k # "bytes"
            \/ Len(arg[1].s) = 0
            \/ arg[2].k # "string"
            \/ arg[2].s = <<>>
            \/ \A i \in 1..Len(arg[2].s) : arg[2].s[i] = " ")

\* a signature of bytes with an account of white space was rejected
C10_Witness ==
    /\ op = "SignedData"
    /\ ~res.ok
    /\ arg[1].k = "bytes"
    /\ Len(arg[1].s) > 0
    /\ arg[2] = Str(<<" ">>)

\* a value the role constructor accepts as its input
IsRoleRecord(v) ==
    /\ IsObject(v) /\ v.k = "object"
    /\ ~MissingString(Get(v, "tokenId"))
    /\ ~MissingString(Get(v, "role"))

\* C12 as stated: the token-gate options accept enabled: true with any
\* non-empty list of records that each carry a non-empty tokenId and role,
\* and hold exactly those roles
C12_RoleRecordsAccepted ==
    (/\ pc = "done" /\ op = "TokenGateOptions"
     /\ Get(arg[1], "enabled") = True
     /\ IsArray(Get(arg[1], "roles"))
     /\ Len(Get(arg[1], "roles").a) > 0
     /\ \A i \in 1..Len(Get(arg[1], "roles").a) :
            IsRoleRecord(Get(arg[1], "roles").a[i]))
        => res.ok /\ Get(res.val, "roles") = Get(arg[1], "roles")

\* C12 amended: the token-gate options accept enabled: true with any
\* non-empty list of role instances and hold exactly those roles; a list
\* that holds a plain record is rejected with 'Each role must be an
\* instance of _IRole'
C12_RoleInstancesAccepted ==
    (/\ pc = "done" /\ op = "TokenGateOptions"
     /\ Get(arg[1], "enabled") = True
     /\ IsArray(Get(arg[1], "roles"))
     /\ Len(Get(arg[1], "roles").a) > 0)
        => LET roles == Get(arg[1], "roles").a
           IN  /\ (\A i \in 1..Len(roles) : InstanceOfClass(roles[i], "_Role"))
                    => res.ok /\ Get(res.val, "roles") = Arr(roles)
               /\ (\E i \in 1..Len(roles) : roles[i].k = "object" /\ roles[i].c = "Object")
                    => ~res.ok /\ res.err = "Each role must be an instance of _IRole"

C12_Witness ==
    /\ pc = "done" /\ op = "TokenGateOptions" /\ res.ok
    /\ Get(arg[1], "enabled") = True
    /\ Len(Get(res.val, "roles").a) = 2
    /\ Get(res.val, "roles").a[1].c = "_Role"
    /\ Get(res.val, "roles").a[2].c = "_TokenGate.Role"

C14_PropertiesAcceptance ==
    (pc = "done" /\ op = "Properties")
        => /\ (Get(arg[1], "plan") \in IPlan /\ Get(arg[1], "periodicity") \in IPeriodicity)
                => res.ok
           /\ (Get(arg[1], "plan") = Undefined \/ Get(arg[1], "periodicity") = Undefined)
                => ~res.ok

\* C15 as stated: an authentication configuration is constructed only if
\* enabled is a boolean, commonOptions passes its validation, and web2Options
\* and web3Options each pass the validation of their own constructor
C15_SubObjectsValidated ==
    (pc = "done" /\ op = "Authentication" /\ res.ok)
        => /\ TypeOf(Get(arg[1], "enabled")) = "boolean"
           /\ _Options(Get(arg[1], "commonOptions")).ok
           /\ Get(arg[1], "commonOptions").f.passport \in IPassportStrategy
           /\ _Web2Options(Get(arg[1], "web2Options")).ok
           /\ _Web3Options(Get(arg[1], "web3Options")).ok

\* C15 amended: an authentication configuration is constructed exactly when
\* enabled is a boolean, commonOptions passes its validation (passport in
\* {REDIS, JWT}) and web2Options and web3Options are non-null objects; the
\* two are kept as given, whether or not their own constructors accept them
C15_SubObjectsShallow ==
    (pc = "done" /\ op = "Authentication")
        => /\ res.ok <=> /\ TypeOf(Get(arg[1], "enabled")) = "boolean"
                         /\ _Options(Get(arg[1], "commonOptions")).ok
                         /\ IsObject(Get(arg[1], "web2Options"))
                         /\ IsObject(Get(arg[1], "web3Options"))
           /\ res.ok => /\ Get(arg[1], "commonOptions").f.passport \in IPassportStrategy
                        /\ Get(res.val, "web2Options") = Get(arg[1], "web2Options")
                        /\ Get(res.val, "web3Options") = Get(arg[1], "web3Options")

C15_Witness ==
    /\ pc = "done" /\ op = "Authentication" /\ res.ok
    /\ ~_Web2Options(Get(arg[1], "web2Options")).ok
    /\ ~_Web3Options(Get(arg[1], "web3Options")).ok

\* both sub-objects valid: the configuration is constructed
C15_WitnessValid ==
    /\ pc = "done" /\ op = "Authentication" /\ res.ok
    /\ _Web2Options(Get(arg[1], "web2Options")).ok
    /\ _Web3Options(Get(arg[1], "web3Options")).ok

\* C16: round trip: every field read back from a constructed wallet entity,
\* secrets record or handshake payload is identical to the input field
C16_RoundTrip ==
    (pc = "done" /\ res.ok)
        => /\ op = "WalletEntity"
                => /\ Get(res.val, "walletId") = Get(arg[1], "walletId")
                   /\ Get(res.val, "publicKey") = Get(arg[1], "publicKey")
                   /\ Get(res.val, "balance") = Get(arg[1], "balance")
           /\ op = "Secrets"
                => /\ Get(res.val, "accountSid") = arg[1]
                   /\ Get(res.val, "authToken") = arg[2]
                   /\ Get(res.val, "serviceSid") = arg[3]
           /\ op = "Payload"
                => /\ Get(res.val, "url") = Get(arg[1], "url")
                   /\ Get(res.val, "node") = Get(arg[1], "node")
                   /\ Get(Get(res.val, "data"), "token")
                          = Get(Get(arg[1], "data"), "token")

\* the messages of the TypeError the runtime raises when a property is read
\* off undefined or null: they name the property that was read, not the
\* field that is absent, and state no expectation
RuntimeTypeErrors ==
    {"Cannot read properties of undefined (reading 'accountSid')",
     "Cannot read properties of null (reading 'accountSid')",
     "Cannot read properties of undefined (reading 'accountId')",
     "Cannot read properties of null (reading 'accountId')",
     "Cannot read properties of undefined (reading 'id')",
     "Cannot read properties of null (reading 'id')",
     "Cannot read properties of undefined (reading 'username')",
     "Cannot read properties of null (reading 'username')",
     "Cannot read properties of undefined (reading 'key')",
     "Cannot read properties of null (reading 'key')",
     "Cannot read properties of undefined (reading 'redis')",
     "Cannot read properties of null (reading 'redis')"}

\* C19: every rejection is a validation error that identifies the field
\* that failed, also when a required nested object is absent
C19_ErrorNamesField ==
    (pc = "done" /\ ~res.ok) => res.err # "" /\ res.err \notin RuntimeTypeErrors

\* v has every property of names, none of them undefined
Populated(v, names) ==
    v.k = "object" /\ \A name \in names : name \in DOMAIN v.f /\ v.f[name] # Undefined

\* the fields a constructor assigns
AssignedFields ==
    [UserEntity |-> {"username", "email", "created_at", "updated_at", "type", "tags"},
     Authenticate |-> {"signedData", "payload"},
     SigninLogin |-> {"operator", "signedData"},
     Web2Login |-> {"user", "operator", "accessToken"}]

\* C20: a constructor that rejects its input hands out no entity, and an
\* entity that a constructor hands out has every field the constructor
\* assigns: no user entity, authenticate request or login is ever observable
\* with only some of its fields populated
C20_NoPartialEntity ==
    pc = "done"
        => /\ ~res.ok => res.val = Undefined /\ res.err # ""
           /\ (op \in DOMAIN AssignedFields /\ res.val # Undefined)
                => res.ok /\ Populated(res.val, AssignedFields[op])

\* a user entity is rejected at its last field, after five were assigned
C20_Witness ==
    /\ pc = "done" /\ op = "UserEntity"
    /\ ~res.ok /\ res.err = "Tags must be an array"
    /\ res.val = Undefined

\* C18: once an entity is constructed, nothing readable from it changes, also
\* when the caller writes to the object or list it passed to the constructor
C18_EntityNeverChanges == [][pc' = "mutated" => res' = res]_vars

\* C21: every constructed user entity has created_at > 0 and
\* updated_at >= created_at, and an input with created_at <= 0 or with
\* updated_at < created_at is rejected
C21_TimestampsOrdered ==
    (pc = "done" /\ op = "UserEntity")
        => LET created_at == Get(arg[1], "created_at")
               updated_at == Get(arg[1], "updated_at")
           IN  /\ res.ok
                    => /\ Get(res.val, "created_at").k = "number"
                       /\ Get(res.val, "created_at").n > 0
                       /\ Get(res.val, "updated_at").k = "number"
                       /\ Get(res.val, "updated_at").n >= Get(res.val, "created_at").n
               /\ (NotPositive(created_at) \/ LessThan(updated_at, created_at))
                    => ~res.ok

\* v is a string of at least one character
NonEmptyString(v) == v.k = "string" /\ Len(v.s) > 0

\* tag has a non-empty key and a non-empty value
WellFormedTag(tag) ==
    NonEmptyString(Get(tag, "key")) /\ NonEmptyString(Get(tag, "value"))

\* C23: a user entity is rejected when tags is no list or holds a tag whose
\* key or value is not a non-empty string, and every tag of a constructed
\* user entity has a non-empty key and a non-empty value
C23_TagsWellFormed ==
    (pc = "done" /\ op = "UserEntity")
        => LET tags == Get(arg[1], "tags")
           IN  /\ ~IsArray(tags) => ~res.ok
               /\ (IsArray(tags) /\ \E i \in 1..Len(tags.a) : ~WellFormedTag(tags.a[i]))
                    => ~res.ok
               /\ res.ok => \A i \in 1..Len(Get(res.val, "tags").a) :
                                WellFormedTag(Get(res.val, "tags").a[i])

\* v is a string with an '@' that has characters before and after it
HasLocalAtDomain(v) ==
    v.k = "string" /\ \E i \in 2..(Len(v.s) - 1) : v.s[i] = "@"

\* C22: the user entity, the traditional login and the signup reject every
\* email without a non-empty local part, an '@' and a non-empty domain part,
\* and never reject the sample address for its email
C22_EmailShape ==
    (pc = "done" /\ op \in {"UserEntity", "DtoLogin", "Signup"})
        => /\ res.ok => HasLocalAtDomain(Get(arg[1], "email"))
           /\ Get(arg[1], "email") = SampleEmail => res.err # "Invalid email format"

\* C24: the traditional login and the signup reject every password of fewer
\* than 8 characters, and accept one of exactly 8 characters when the other
\* fields are valid
C24_PasswordLength ==
    (pc = "done" /\ op \in {"DtoLogin", "Signup"})
        => LET password == Get(arg[1], "password")
           IN  /\ (password.k = "string" /\ Len(password.s) < 8) => ~res.ok
               /\ res.ok => password.k = "string" /\ Len(password.s) >= 8
               /\ (/\ password.k = "string" /\ Len(password.s) = 8
                   /\ Get(arg[1], "username") = Str(<<"a">>)
                   /\ Get(arg[1], "email") = SampleEmail
                   /\ op = "Signup" => Get(arg[1], "tags") = Arr(<<ValidTag>>))
                    => res.ok /\ Get(res.val, "password") = password

C24_Witness ==
    /\ pc = "done" /\ op = "Signup" /\ res.ok
    /\ Len(Get(res.val, "password").s) = 8

\* a password of seven characters is the reason of a rejection
C24_WitnessShort ==
    /\ pc = "done" /\ op = "DtoLogin" /\ ~res.ok
    /\ Len(Get(arg[1], "password").s) = 7
    /\ res.err = "Password must be a string with at least 8 characters"

\* C25: a second-factor Create record is constructed exactly when factorSid,
\* identity, uri and secret are strings with a character that is not white
\* space and message is a string; an empty message is accepted
C25_CreateAcceptance ==
    (pc = "done" /\ op = "Create")
        => /\ res.ok <=> /\ \A i \in 1..4 : IsSolidString(arg[i])
                         /\ arg[5].k = "string"
           /\ res.ok => Get(res.val, "message") = arg[5]

C25_Witness ==
    /\ pc = "done" /\ op = "Create" /\ res.ok
    /\ arg[5] = Str(<<>>)

\* Create("", "id", "uri", "secret", "msg") is rejected for its factorSid
C25_WitnessEmptyFactorSid ==
    /\ pc = "done" /\ op = "Create" /\ ~res.ok
    /\ arg[1] = Str(<<>>)
    /\ \A i \in 2..5 : IsSolidString(arg[i])
    /\ res.err = "factorSid must be a non-empty string"

\* C27: Twilio secrets are constructed exactly when accountSid, authToken and
\* serviceSid are strings with a character that is not white space
C27_SecretsAcceptance ==
    (pc = "done" /\ op = "Secrets")
        => (res.ok <=> \A i \in 1..3 : IsSolidString(arg[i]))

\* TwilioSecrets("", "token", "service") is rejected for its accountSid
C27_Witness ==
    /\ pc = "done" /\ op = "Secrets" /\ ~res.ok
    /\ arg[1] = Str(<<>>)
    /\ IsSolidString(arg[2]) /\ IsSolidString(arg[3])
    /\ res.err = "accountSid must be a non-empty string"

C27_WitnessAccepted ==
    /\ pc = "done" /\ op = "Secrets" /\ res.ok

C26_WitnessFraction ==
    /\ pc = "done" /\ op = "Security" /\ ~res.ok
    /\ arg[1] = Frac(1)

\* the two logout responses agree on the pair (logout, message): both accept
\* it or both reject it, and on acceptance both expose these two values
LogoutsAgree(web2, web3, logout, message) ==
    /\ web2.ok <=> web3.ok
    /\ web2.ok <=> (TypeOf(logout) = "boolean" /\ IsSolidString(message))
    /\ web2.ok => /\ Get(web2.val, "logout") = logout
                  /\ Get(web3.val, "logout") = logout
                  /\ Get(web2.val, "message") = message
                  /\ Get(web3.val, "message") = message

\* C30: the Web2 and the Web3 logout response accept exactly the same
\* (logout, message) pairs, those with a boolean logout and a message that
\* is a non-empty string after trimming, and expose the same values
C30_LogoutsEquivalent ==
    /\ (pc = "done" /\ op = "Web2Logout")
        => LogoutsAgree(res,
                        _Web3Logout(Get(arg[1], "logout"), Get(arg[1], "message")),
                        Get(arg[1], "logout"), Get(arg[1], "message"))
    /\ (pc = "done" /\ op = "Web3Logout")
        => LogoutsAgree(_Web2Logout(Obj([logout |-> arg[1], message |-> arg[2]])),
                        res, arg[1], arg[2])

C30_Witness ==
    /\ pc = "done" /\ op = "Web3Logout" /\ res.ok
    /\ _Web2Logout(Obj([logout |-> arg[1], message |-> arg[2]])).ok
    /\ arg[2] = Str(<<" ", "a">>)

\* both reject a message of white space
C30_WitnessRejected ==
    /\ pc = "done" /\ op = "Web2Logout" /\ ~res.ok
    /\ Get(arg[1], "logout") = True
    /\ Get(arg[1], "message") = Str(<<" ", " ">>)
    /\ ~_Web3Logout(True, Str(<<" ", " ">>)).ok

\* the error a constructor is to raise: checks lists, in validation order,
\* whether each field is violated and the errors that report the field; the
\* first violated field decides
ReportsFirstViolation(checks, outcome) ==
    \A i \in 1..Len(checks) :
        (checks[i].violated /\ \A j \in 1..(i - 1) : ~checks[j].violated)
            => ~outcome.ok /\ outcome.err \in checks[i].errors

UserEntityChecks(entity) ==
    LET created_at == Get(entity, "created_at")
        updated_at == Get(entity, "updated_at")
        tags == Get(entity, "tags")
    IN  << [violated |-> ~IsSolidString(Get(entity, "username")),
            errors |-> {"Username must be a non-empty string"}],
           [violated |-> ~HasLocalAtDomain(Get(entity, "email")),
            errors |-> {"Invalid email format"}],
           [violated |-> ~(created_at.k = "number" /\ created_at.n > 0),
            errors |-> {"Created_at must be a positive number"}],
           [violated |-> ~(/\ updated_at.k = "number" /\ created_at.k = "number"
                           /\ updated_at.n >= created_at.n),
            errors |-> {"Updated_at must be a number greater than or equal to created_at"}],
           [violated |-> Get(entity, "type") \notin IType,
            errors |-> {"Invalid user type"}],
           [violated |-> \/ ~IsArray(tags)
                         \/ \E i \in 1..Len(tags.a) : ~WellFormedTag(tags.a[i]),
            errors |-> {"Tags must be an array",
                        "Each tag must have a key and value of type string"}] >>

PayloadChecks(payload) ==
    LET url == Get(payload, "url")
        data == Get(payload, "data")
    IN  << [violated |-> MissingString(url) \/ ~UrlParses(url.s),
            errors |-> {"URL must be a non-empty string", "Invalid URL format"}],
           [violated |-> MissingString(Get(payload, "node")),
            errors |-> {"Node must be a non-empty string"}],
           [violated |-> MissingObject(data) \/ ~_Data(Get(data, "token")).ok,
            errors |-> {"Invalid data object", "Token must be a non-empty string",
                        "Invalid token format"}] >>

TwilioOptionsChecks(twilioSecrets, enabled) ==
    << [violated |-> \/ ~IsObject(twilioSecrets)
                     \/ ~IsSolidString(Get(twilioSecrets, "accountSid"))
                     \/ ~IsSolidString(Get(twilioSecrets, "authToken"))
                     \/ ~IsSolidString(Get(twilioSecrets, "serviceSid")),
        errors |-> {"accountSid must be a non-empty string",
                    "authToken must be a non-empty string",
                    "serviceSid must be a non-empty string"}],
       [violated |-> TypeOf(enabled) # "boolean",
        errors |-> {"enabled must be a boolean"}] >>

\* C29: when several fields of an input are invalid, the constructor
\* reports the first of them in its validation order (user entity: username,
\* email, created_at, updated_at, type, tags; handshake payload: url, node,
\* data; Twilio options: twilioSecrets before enabled)
C29_FirstViolationReported ==
    /\ (pc = "done" /\ op = "UserEntity")
        => ReportsFirstViolation(UserEntityChecks(arg[1]), res)
    /\ (pc = "done" /\ op = "Payload")
        => ReportsFirstViolation(PayloadChecks(arg[1]), res)
    /\ (pc = "done" /\ op = "TwilioOptions")
        => ReportsFirstViolation(TwilioOptionsChecks(arg[1], arg[2]), res)

====
